---- MODULE Spec2Model ----
(***************************************************************************)
(* Model of pdt_view.py (Precision Drawing Tools, view control operators). *)
(*                                                                         *)
(* State: the screen's areas with the camera pose of each 3D viewport, the *)
(* scene settings pdt_pg (rotation_coords, vrotangle), the panel's         *)
(* _ui_groups highlight flags, the timers registered with bpy.app.timers,  *)
(* and the record of what the most recent handler did (its return value,   *)
(* the redraws it requested, the helper/host calls it made).               *)
(*                                                                         *)
(* Numbers: angles in degrees are integers; radians are integers in        *)
(* micro-radians (pi is PiMicro); quaternion and matrix literals are       *)
(* scaled by 10^4; time is counted in ticks of one second.                 *)
(***************************************************************************)
EXTENDS Integers, Sequences, FiniteSets, TLC

VARIABLES areas, active, pg, ui_groups, timers, nextId, fired, last

vars == <<areas, active, pg, ui_groups, timers, nextId, fired, last>>

\* ------------------------------------------------------------------ bounds
MaxAreas == 2
NGroups == 2
MaxRequests == 2

\* --------------------------------------------------------------- constants
\* first_interval=2.0 (seconds)
Delay == 2
\* math.pi in micro-radians
PiMicro == 3141593
\* sentinel default of the ui_group property
NoGroup == -1

\* ------------------------------------------------------------ the settings
\* Values of pg.rotation_coords (x, y, z in degrees) and pg.vrotangle that
\* the scene can hold; the three components differ so that their order shows.
Settings ==
    { [rotation_coords |-> <<90, -45, 30>>, vrotangle |-> 30],
      [rotation_coords |-> <<0, 180, -1>>,  vrotangle |-> -45],
      [rotation_coords |-> <<0, 0, 0>>,     vrotangle |-> 0] }

\* ------------------------------------------------------------ pure helpers
\* deg * pi / 180, evaluated left to right
radians_half(deg) == (deg * PiMicro) \div 360

radians(deg) == (deg * PiMicro) \div 180

\* pdt_functions.euler_to_quaternion: an opaque constructor, one quaternion
\* per triple of radians
euler_to_quaternion(x, y, z) == [src |-> "euler_to_quaternion", args |-> <<x, y, z>>]

\* Quaternion((0.8205, 0.4247, -0.1759, -0.3399))
IsoQuaternion == [src |-> "Quaternion", args |-> <<8205, 4247, -1759, -3399>>]

default_view_distance == "17.986562728881836"

default_view_location == <<0, 0, 0>>

default_view_matrix ==
    << <<4100, -4017, 8188, 0>>,
       <<9120, 1936, -3617, 0>>,
       <<-133, 8950, 4458, 0>>,
       <<0, 0, -179866, 10000>> >>

\* A pose the user navigated to before any operator ran
UserRotation == [src |-> "user", args |-> <<>>]
UserDistance == "10.0"
UserLocation == <<1, 2, 3>>
UserMatrix ==
    << <<10000, 0, 0, 0>>,
       <<0, 10000, 0, 0>>,
       <<0, 0, 10000, 0>>,
       <<10000, 20000, -100000, 10000>> >>

\* An area of the screen; for a VIEW_3D area the pose fields are those of
\* spaces.active.region_3d
Area(type, ortho) ==
    [type |-> type,
     view_rotation |-> UserRotation,
     view_distance |-> UserDistance,
     view_location |-> UserLocation,
     view_matrix |-> UserMatrix,
     is_orthographic_side_view |-> ortho]

InitialAreas ==
    { Area("VIEW_3D", TRUE), Area("VIEW_3D", FALSE), Area("PROPERTIES", FALSE) }

AreaLists(max) == UNION { [1..n -> InitialAreas] : n \in 1..max }

\* [a for a in context.screen.areas if a.type == "VIEW_3D"], as indices
View3DAreas_nofilter(as) == 1..Len(as)

View3DAreas(as) == { i \in 1..Len(as) : as[i].type = "VIEW_3D" }

Min(S) == CHOOSE m \in S : \A n \in S : m <= n

\* areas[0] of the filtered list
FirstView3D(as) == Min(View3DAreas(as))

\* --------------------------------------------------- the command surface
bl_idnames ==
    { "pdt.viewrot", "pdt.viewleft", "pdt.viewright", "pdt.viewup",
      "pdt.viewdown", "pdt.viewroll", "pdt.viewiso", "pdt.reset_3d_view" }

\* The ui_group property of each operator class: <<default>> where the class
\* declares it, <<>> where it does not
ui_group_default_all(op) == <<NoGroup>>

ui_group_default(op) ==
    IF op \in { "pdt.viewrot", "pdt.viewleft", "pdt.viewright", "pdt.viewup",
                "pdt.viewdown", "pdt.viewroll" }
    THEN <<NoGroup>>
    ELSE <<>>

\* bl_description, or the class docstring where there is no bl_description
bl_description(op) ==
    CASE op = "pdt.viewrot" -> "View Rotation by Absolute Values"
      [] op = "pdt.viewleft" -> "View Orbit Left by Delta Value"
      [] op = "pdt.viewright" -> "View Orbit Right by Delta Value"
      [] op = "pdt.viewup" -> "View Orbit Up by Delta Value"
      [] op = "pdt.viewdown" -> "View Orbit Down by Delta Value"
      [] op = "pdt.viewroll" -> "View Roll by Delta Value"
      [] op = "pdt.viewiso" -> "Isometric View."
      [] op = "pdt.reset_3d_view" -> "Reset 3D View to Blender Defaults."

\* What the most recent handler did
Ran(kind, op, g, result, redraws, registered, calls) ==
    [kind |-> kind, op |-> op, group_arg |-> g, result |-> result,
     redraws |-> redraws, registered |-> registered, calls |-> calls]

\* ------------------------------------------------------------------- Init
InitScreen(max, settings) ==
    /\ areas \in AreaLists(max)
    /\ active \in 1..Len(areas)
    /\ pg \in settings
    /\ ui_groups = [g \in 0..(NGroups - 1) |-> FALSE]
    /\ timers = {}
    /\ nextId = 0
    /\ fired = {}
    /\ last = Ran("none", "", NoGroup, "", 0, 0, <<>>)

\* ------------------------------------------------------ absolute rotation
ViewRot_args(p) ==
    << radians(p.rotation_coords[1]),
       radians(p.rotation_coords[2]),
       radians(p.rotation_coords[3]) >>

PDT_OT_ViewRot_execute ==
    LET v3d == View3DAreas(areas)
        a == ViewRot_args(pg)
    IN  /\ areas' = IF v3d # {}
                    THEN [areas EXCEPT ![FirstView3D(areas)].view_rotation =
                              euler_to_quaternion(a[1], a[2], a[3])]
                    ELSE areas
        /\ last' = Ran("execute", "pdt.viewrot", NoGroup, "FINISHED", 0, 0,
                       IF v3d # {}
                       THEN << [fn |-> "euler_to_quaternion", type |-> "", args |-> a] >>
                       ELSE <<>>)
        /\ UNCHANGED <<active, pg, ui_groups, timers, nextId, fired>>

\* ------------------------------------------------------- orbits and roll
vRotL_call(p) ==
    [fn |-> "view3d.view_orbit", type |-> "ORBITLEFT", args |-> <<radians(p.vrotangle)>>]

vRotR_call_left(p) ==
    [fn |-> "view3d.view_orbit", type |-> "ORBITLEFT", args |-> <<radians(p.vrotangle)>>]

vRotR_call(p) ==
    [fn |-> "view3d.view_orbit", type |-> "ORBITRIGHT", args |-> <<radians(p.vrotangle)>>]

vRotU_call(p) ==
    [fn |-> "view3d.view_orbit", type |-> "ORBITUP", args |-> <<radians(p.vrotangle)>>]

vRotD_call(p) ==
    [fn |-> "view3d.view_orbit", type |-> "ORBITDOWN", args |-> <<radians(p.vrotangle)>>]

vRoll_call(p) ==
    [fn |-> "view3d.view_roll", type |-> "ANGLE", args |-> <<radians(p.vrotangle)>>]

\* The host command acts on the viewport of the context (the active area);
\* the rotation it leaves is the host's and is kept as one opaque value.
HostRotation == [src |-> "view3d", args |-> <<>>]

host_view_command(as, act, call) ==
    IF as[act].type = "VIEW_3D"
    THEN [as EXCEPT ![act].view_rotation = HostRotation]
    ELSE as

\* The body shared by the five delta operators
DeltaExecute(op, call) ==
    LET v3d == View3DAreas(areas)
    IN  /\ areas' = IF v3d # {} THEN host_view_command(areas, active, call) ELSE areas
        /\ last' = Ran("execute", op, NoGroup, "FINISHED", 0, 0,
                       IF v3d # {} THEN <<call>> ELSE <<>>)
        /\ UNCHANGED <<active, pg, ui_groups, timers, nextId, fired>>

PDT_OT_vRotL_execute == DeltaExecute("pdt.viewleft", vRotL_call(pg))

PDT_OT_vRotR_execute == DeltaExecute("pdt.viewright", vRotR_call(pg))

PDT_OT_vRotU_execute == DeltaExecute("pdt.viewup", vRotU_call(pg))

PDT_OT_vRotD_execute == DeltaExecute("pdt.viewdown", vRotD_call(pg))

PDT_OT_vRoll_execute == DeltaExecute("pdt.viewroll", vRoll_call(pg))

\* --------------------------------------------------------- isometric snap
PDT_OT_viso_execute ==
    LET v3d == View3DAreas(areas)
    IN  /\ areas' = IF v3d # {}
                    THEN [areas EXCEPT ![FirstView3D(areas)].view_rotation = IsoQuaternion]
                    ELSE areas
        /\ last' = Ran("execute", "pdt.viewiso", NoGroup, "FINISHED", 0, 0, <<>>)
        /\ UNCHANGED <<active, pg, ui_groups, timers, nextId, fired>>

\* ------------------------------------------------------------------ reset
ResetView_swapped(v) ==
    IF ~v.is_orthographic_side_view
    THEN [v EXCEPT !.view_distance = default_view_distance,
                   !.view_location = default_view_location]
    ELSE [v EXCEPT !.view_matrix = default_view_matrix]

ResetView_leaves_side_view(v) ==
    IF v.is_orthographic_side_view
    THEN [v EXCEPT !.view_distance = default_view_distance,
                   !.view_location = default_view_location,
                   !.is_orthographic_side_view = FALSE]
    ELSE [v EXCEPT !.view_matrix = default_view_matrix]

\* The body of the loop for one view; view.update() is the host's
\* recalculation and the debug() lines are trace output
ResetView(v) ==
    IF v.is_orthographic_side_view
    THEN [v EXCEPT !.view_distance = default_view_distance,
                   !.view_location = default_view_location]
    ELSE [v EXCEPT !.view_matrix = default_view_matrix]

ResetAreas(as) ==
    [i \in 1..Len(as) |-> IF i \in View3DAreas(as) THEN ResetView(as[i]) ELSE as[i]]

PDT_OT_Reset3DView_execute ==
    /\ areas' = ResetAreas(areas)
    /\ last' = Ran("execute", "pdt.reset_3d_view", NoGroup, "FINISHED", 0, 0, <<>>)
    /\ UNCHANGED <<active, pg, ui_groups, timers, nextId, fired>>

\* ------------------------------------------------- tooltips and highlight
Timer(id, g) == [id |-> id, ui_group |-> g, remaining |-> Delay]

highlight_flags_all(groups, g) == [i \in DOMAIN groups |-> TRUE]

\* ui_groups[ui_group] = True
highlight_flags(groups, g) == [groups EXCEPT ![g] = TRUE]

\* highlight(ui_group, redraw): flag, redraw, register the one-shot timer
highlight(op, g) ==
    /\ nextId < MaxRequests
    /\ ui_groups' = highlight_flags(ui_groups, g)
    /\ timers' = timers \cup {Timer(nextId, g)}
    /\ nextId' = nextId + 1
    /\ last' = Ran("description", op, g, bl_description(op), 1, 1, <<>>)

\* description(cls, context, self) of the six classes that define it
description(op, g) ==
    /\ ui_group_default(op) # <<>>
    /\ IF g # NoGroup
       THEN highlight(op, g)
       ELSE /\ last' = Ran("description", op, g, bl_description(op), 0, 0, <<>>)
            /\ UNCHANGED <<ui_groups, timers, nextId>>
    /\ UNCHANGED <<areas, active, pg, fired>>

\* The tooltip of a class without a description method: the host shows the
\* class docstring and no code of the module runs
docstring_description(op) ==
    /\ ui_group_default(op) = <<>>
    /\ last' = Ran("description", op, NoGroup, bl_description(op), 0, 0, <<>>)
    /\ UNCHANGED <<areas, active, pg, ui_groups, timers, nextId, fired>>

timers_after_rerun(tms, t) == (tms \ {t}) \cup {[t EXCEPT !.remaining = Delay]}

\* set_false returns None, so the host drops the timer after running it
timers_after(tms, t) == tms \ {t}

\* The deferred callback of highlight, run by the host when it is due
set_false(t) ==
    /\ t \in timers
    /\ t.remaining = 0
    /\ ui_groups' = [ui_groups EXCEPT ![t.ui_group] = FALSE]
    /\ timers' = timers_after(timers, t)
    /\ fired' = fired \cup {t.id}
    /\ last' = Ran("timer", "set_false", t.ui_group, "None", 1, 0, <<>>)
    /\ UNCHANGED <<areas, active, pg, nextId>>

TimerFires == \E t \in timers : set_false(t)

\* One second passes; the host runs a timer at the tick it falls due, so
\* time does not pass over a due timer
Tick ==
    /\ timers # {}
    /\ \A t \in timers : t.remaining > 0
    /\ timers' = { [t EXCEPT !.remaining = @ - 1] : t \in timers }
    /\ UNCHANGED <<areas, active, pg, ui_groups, nextId, fired, last>>

Describe == \E op \in bl_idnames : \E g \in {NoGroup} \cup (0..(NGroups - 1)) : description(op, g)

DescribeDocstring == \E op \in bl_idnames : docstring_description(op)

Execute ==
    \/ PDT_OT_ViewRot_execute
    \/ PDT_OT_vRotL_execute
    \/ PDT_OT_vRotR_execute
    \/ PDT_OT_vRotU_execute
    \/ PDT_OT_vRotD_execute
    \/ PDT_OT_vRoll_execute
    \/ PDT_OT_viso_execute
    \/ PDT_OT_Reset3DView_execute

Next ==
    \/ Execute
    \/ Describe
    \/ DescribeDocstring
    \/ TimerFires
    \/ Tick

\* Every handler (execute, tooltip, timer callback), interleaved, on the
\* screens of one area with one value of the settings; the screens of several
\* areas and the other settings are those of ViewSpec
Init == InitScreen(1, { s \in Settings : s.vrotangle > 0 })

Spec == Init /\ [][Next]_vars

\* The host's event loop keeps time passing and runs every due timer
LiveSpec == Spec /\ WF_vars(Tick) /\ WF_vars(TimerFires)

\* The execute entry points alone, on the screens of up to MaxAreas areas
ViewInit == InitScreen(MaxAreas, Settings)

ViewNext == Execute

ViewSpec == ViewInit /\ [][ViewNext]_vars

\* ---------------------------------------------------------------- claims
Has3DViewport == \E i \in 1..Len(areas) : areas[i].type = "VIEW_3D"

Sign(n) == IF n > 0 THEN 1 ELSE IF n < 0 THEN -1 ELSE 0

\* r micro-radians is deg degrees: r = floor(deg * pi / 180)
IsRadiansOf(r, deg) == 180 * r <= deg * PiMicro /\ deg * PiMicro < 180 * (r + 1)

\* C1: while less than the delay has passed since a tooltip request for a
\* group, that group's flag is true (every request gets its full window, also
\* one made while the flag was already true), and a flag is true only while a
\* callback for its group is pending.
C1_FullWindow ==
    /\ \A t \in timers : t.remaining > 0 => ui_groups[t.ui_group]
    /\ \A g \in DOMAIN ui_groups : ui_groups[g] => \E t \in timers : t.ui_group = g

\* C2: reset is idempotent: in the state a reset leaves, another reset
\* changes no field of any area.
C2_ResetIdempotent ==
    (last.kind = "execute" /\ last.op = "pdt.reset_3d_view") => ResetAreas(areas) = areas

C2_Witness ==
    /\ last.kind = "execute" /\ last.op = "pdt.reset_3d_view"
    /\ \E i \in 1..Len(areas) : areas[i].view_matrix = default_view_matrix
    /\ \E i \in 1..Len(areas) : areas[i].view_distance = default_view_distance

C4_NoViewportNoOp ==
    [][((\A i \in 1..Len(areas) : areas[i].type # "VIEW_3D") /\ Execute) =>
        /\ areas' = areas
        /\ ui_groups' = ui_groups
        /\ timers' = timers
        /\ pg' = pg
        /\ last'.calls = <<>>
        /\ last'.result = "FINISHED"
      ]_vars

C4_Witness ==
    /\ \A i \in 1..Len(areas) : areas[i].type # "VIEW_3D"
    /\ last.kind = "execute" /\ last.op = "pdt.viewleft" /\ last.result = "FINISHED"
    /\ \E g \in DOMAIN ui_groups : ui_groups[g]

\* C5: with a 3D viewport present each delta operator calls its host command
\* exactly once, with the direction tag of its identifier and an angle of the
\* sign of vrotangle.
C5_DirectionTags ==
    (last.kind = "execute" /\ Has3DViewport) =>
        \A op \in { "pdt.viewleft", "pdt.viewright", "pdt.viewup", "pdt.viewdown", "pdt.viewroll" } :
            last.op = op =>
                /\ Len(last.calls) = 1
                /\ last.calls[1].fn = (IF op = "pdt.viewroll" THEN "view3d.view_roll" ELSE "view3d.view_orbit")
                /\ last.calls[1].type =
                      (CASE op = "pdt.viewleft" -> "ORBITLEFT"
                         [] op = "pdt.viewright" -> "ORBITRIGHT"
                         [] op = "pdt.viewup" -> "ORBITUP"
                         [] op = "pdt.viewdown" -> "ORBITDOWN"
                         [] op = "pdt.viewroll" -> "ANGLE")
                /\ Len(last.calls[1].args) = 1
                /\ Sign(last.calls[1].args[1]) = Sign(pg.vrotangle)

C5_Witness ==
    /\ last.kind = "execute" /\ last.op = "pdt.viewright" /\ Has3DViewport
    /\ pg.vrotangle < 0
    /\ Len(last.calls) = 1

\* C6: a tooltip request with ui_group = -1 changes no flag, requests no
\* redraw and registers no timer; with another ui_group it sets exactly that
\* flag, requests one redraw and registers exactly one timer of the full delay
\* for that group; the timer's callback clears exactly that flag and requests
\* one redraw; the request returns the operator's description.
C6_TooltipHighlight ==
    /\ [][\A op \in bl_idnames : \A g \in {NoGroup} \cup (0..(NGroups - 1)) :
            (last'.op = op /\ last'.group_arg = g /\ description(op, g)) =>
                /\ last'.result = bl_description(op)
                /\ g = NoGroup =>
                      /\ ui_groups' = ui_groups
                      /\ timers' = timers
                      /\ last'.redraws = 0
                      /\ last'.registered = 0
                /\ g # NoGroup =>
                      /\ ui_groups'[g] = TRUE
                      /\ \A h \in DOMAIN ui_groups : h # g => ui_groups'[h] = ui_groups[h]
                      /\ last'.redraws = 1
                      /\ last'.registered = 1
                      /\ timers \subseteq timers'
                      /\ Cardinality(timers' \ timers) = 1
                      /\ \A t \in timers' \ timers : t.ui_group = g /\ t.remaining = Delay
         ]_vars
    /\ [][\A t \in timers :
            set_false(t) =>
                /\ ui_groups'[t.ui_group] = FALSE
                /\ \A h \in DOMAIN ui_groups : h # t.ui_group => ui_groups'[h] = ui_groups[h]
                /\ last'.redraws = 1
                /\ last'.registered = 0
                /\ timers' = timers \ {t}
         ]_vars

C6_Witness ==
    /\ last.kind = "timer" /\ last.group_arg = 1
    /\ ui_groups[0] /\ ~ui_groups[1]
    /\ Cardinality(timers) = 1

\* C7 (as stated): all eight operators take ui_group with default -1, and
\* every execute returns FINISHED.
C7_AllEightTakeUiGroup ==
    /\ Cardinality(bl_idnames) = 8
    /\ \A op \in bl_idnames : ui_group_default(op) = <<NoGroup>>
    /\ last.kind = "execute" => last.result = "FINISHED"

\* C7 (amended): there are eight operators and every execute returns
\* FINISHED; the six rotation/orbit/roll operators take ui_group with default
\* -1; pdt.viewiso and pdt.reset_3d_view take no ui_group, and a tooltip
\* request on them requests no redraw and registers no timer.
C7_SixTakeUiGroup ==
    /\ Cardinality(bl_idnames) = 8
    /\ \A op \in bl_idnames \ {"pdt.viewiso", "pdt.reset_3d_view"} : ui_group_default(op) = <<NoGroup>>
    /\ \A op \in {"pdt.viewiso", "pdt.reset_3d_view"} : ui_group_default(op) = <<>>
    /\ last.kind = "execute" => (last.op \in bl_idnames /\ last.result = "FINISHED")
    /\ (last.kind = "description" /\ last.op \in {"pdt.viewiso", "pdt.reset_3d_view"}) =>
          (last.redraws = 0 /\ last.registered = 0 /\ last.group_arg = NoGroup)

C7_Witness ==
    /\ last.kind = "description" /\ last.op = "pdt.viewiso"
    /\ timers # {}
    /\ last.registered = 0

\* C8: the absolute rotation and the isometric snap change the rotation of
\* the active viewport and of no other, and no distance or location.
C8_ActiveViewportRotated ==
    [][((PDT_OT_ViewRot_execute \/ PDT_OT_viso_execute) /\ areas[active].type = "VIEW_3D") =>
        /\ areas'[active].view_rotation =
              (IF last'.op = "pdt.viewiso"
               THEN IsoQuaternion
               ELSE euler_to_quaternion(last'.calls[1].args[1], last'.calls[1].args[2], last'.calls[1].args[3]))
        /\ \A i \in 1..Len(areas) :
              /\ i # active => areas'[i].view_rotation = areas[i].view_rotation
              /\ areas'[i].view_distance = areas[i].view_distance
              /\ areas'[i].view_location = areas[i].view_location
      ]_vars

\* C9: the absolute rotation passes (x, y, z) of rotation_coords, each
\* converted to radians, in that order; each delta operator passes vrotangle
\* converted to radians; no step changes rotation_coords or vrotangle.
C9_DegreesToRadians ==
    /\ [](((last.kind = "execute" /\ Has3DViewport) =>
            /\ last.op = "pdt.viewrot" =>
                  /\ Len(last.calls) = 1
                  /\ last.calls[1].fn = "euler_to_quaternion"
                  /\ Len(last.calls[1].args) = 3
                  /\ \A k \in 1..3 : IsRadiansOf(last.calls[1].args[k], pg.rotation_coords[k])
            /\ last.op \in { "pdt.viewleft", "pdt.viewright", "pdt.viewup", "pdt.viewdown", "pdt.viewroll" } =>
                  /\ Len(last.calls) = 1
                  /\ IsRadiansOf(last.calls[1].args[1], pg.vrotangle)))
    /\ [][pg' = pg]_vars

C9_Witness ==
    /\ last.kind = "execute" /\ last.op = "pdt.viewrot" /\ Has3DViewport
    /\ pg.rotation_coords = <<90, -45, 30>>
    /\ last.calls[1].args = <<1570796, -785399, 523598>>

AllClear == timers = {} /\ \A g \in DOMAIN ui_groups : ~ui_groups[g]

\* C10: with the host running every due timer, the highlights end up all
\* cleared with no callback pending; a callback that has fired is never
\* pending again; the number of pending callbacks is the number of requests
\* with a group minus the number of callbacks fired.
C10_EventuallyCleared ==
    /\ <>[]AllClear
    /\ [][\A id \in fired : id \in fired' /\ \A t \in timers' : t.id # id]_vars
    /\ [](Cardinality(timers) = nextId - Cardinality(fired))

C10_Witness ==
    /\ AllClear
    /\ Cardinality(fired) >= 2
    /\ nextId = Cardinality(fired)

====
